---- MODULE Spec2Model ----
(***************************************************************************)
(* Model of the inductance-matrix calculator for three-phase overhead      *)
(* lines (src/src/lib/inductanceCalculator.ts).                            *)
(*                                                                         *)
(* A JavaScript number is modelled as a tagged value: a finite number in   *)
(* decimal fixed point (an integer n standing for n / SC), NaN, +Infinity  *)
(* or -Infinity.  The arithmetic operators follow IEEE-754 / ECMAScript    *)
(* for the special values; finite results are rounded to the nearest       *)
(* multiple of 1/SC.  Zero is unsigned: with the inputs considered here    *)
(* every zero divisor the code can meet is +0.                             *)
(***************************************************************************)
EXTENDS Integers, Sequences, FiniteSets, TLC

\* Fixed-point scale: a finite number x is held as the integer x * SC.
SC == 10^5

--------------------------------------------------------------------------
(* Integer fixed-point arithmetic on finite numbers.                       *)

Abs(n) == IF n < 0 THEN -n ELSE n

Sgn(n) == IF n < 0 THEN -1 ELSE IF n = 0 THEN 0 ELSE 1

\* |a| * |b| / SC rounded to nearest, computed in pieces of three decimal
\* digits so that no intermediate product leaves the machine integer range.
MulMag(a, b) ==
    LET ah == a \div 1000
        al == a % 1000
        bh == b \div 1000
        bl == b % 1000
    IN  ah * bh * 10
          + ((ah * bl + al * bh) * 10 + (al * bl + 50) \div 100 + 500) \div 1000

MulQ(a, b) == Sgn(a) * Sgn(b) * MulMag(Abs(a), Abs(b))

\* Long division: digits of r / b after the decimal point, one per step.
RECURSIVE DivDigits(_, _, _, _)
DivDigits(q, r, b, n) ==
    IF n = 0
    THEN IF 2 * r >= b THEN q + 1 ELSE q
    ELSE DivDigits(q * 10 + (r * 10) \div b, (r * 10) % b, b, n - 1)

\* |a| / |b| * SC rounded to nearest, for b # 0.
DivMag(a, b) == DivDigits(a \div b, a % b, b, 5)

DivQ(a, b) == Sgn(a) * Sgn(b) * DivMag(Abs(a), Abs(b))

\* Square root of a non-negative fixed-point number by Newton's iteration.
RECURSIVE SqrtIter(_, _, _)
SqrtIter(v, y, n) ==
    LET next == (y + DivMag(v, y)) \div 2
    IN  IF n = 0 \/ next = y THEN y ELSE SqrtIter(v, next, n - 1)

SqrtQ(v) == IF v = 0 THEN 0 ELSE SqrtIter(v, IF v > SC THEN v ELSE SC, 40)

\* k ln 2 for an integer k, with ln 2 = 0.693147.
Ln2Times(k) == Sgn(k) * ((Abs(k) * 693147 + 5) \div 10)

\* Range reduction for the logarithm: x = m * 2^k with SC <= m < 2 SC.
RECURSIVE LnReduce(_, _)
LnReduce(x, k) ==
    IF x >= 2 * SC THEN LnReduce((x + 1) \div 2, k + 1)
    ELSE IF x < SC THEN LnReduce(2 * x, k - 1)
    ELSE <<x, k>>

\* Natural logarithm of a positive fixed-point number:
\* ln x = k ln 2 + 2 atanh((m - 1) / (m + 1)).
LnQ(x) ==
    LET mk == LnReduce(x, 0)
        m  == mk[1]
        k  == mk[2]
        z  == DivQ(m - SC, m + SC)
        z2 == MulQ(z, z)
        z3 == MulQ(z, z2)
        z5 == MulQ(z3, z2)
        z7 == MulQ(z5, z2)
        z9 == MulQ(z7, z2)
        s  == z + z3 \div 3 + z5 \div 5 + z7 \div 7 + z9 \div 9
    IN  Ln2Times(k) + 2 * s

\* 2^k * v for an integer k, rounding halves on the way down.
RECURSIVE Scale2(_, _)
Scale2(v, k) ==
    IF k = 0 THEN v
    ELSE IF k > 0 THEN Scale2(2 * v, k - 1)
    ELSE Scale2((v + 1) \div 2, k + 1)

\* floor(t / ln 2) for a fixed-point t.
FloorLn2(t) ==
    LET q == (Abs(t) * 10) \div Ln2Times(10)
    IN  IF t >= 0 THEN q ELSE -(q + 1)

\* Exponential of a fixed-point number: e^t = 2^k e^r with 0 <= r < ln 2.
ExpQ(t) ==
    LET k  == FloorLn2(t)
        r  == t - Ln2Times(k)
        r2 == MulQ(r, r)
        r3 == MulQ(r2, r)
        r4 == MulQ(r3, r)
        r5 == MulQ(r4, r)
        r6 == MulQ(r5, r)
        r7 == MulQ(r6, r)
        e  == SC + r + r2 \div 2 + r3 \div 6 + r4 \div 24 + r5 \div 120
                 + r6 \div 720 + r7 \div 5040
    IN  Scale2(e, k)

--------------------------------------------------------------------------
(* JavaScript numbers: finite fixed-point values and the IEEE specials.    *)

Num(n) == [k |-> "num", v |-> n]

NaN == [k |-> "nan", v |-> 0]

PosInf == [k |-> "inf", v |-> 1]

NegInf == [k |-> "inf", v |-> -1]

\* The value of a local that has not been assigned yet.
Unset == [k |-> "unset", v |-> 0]

Inf(s) == IF s < 0 THEN NegInf ELSE PosInf

IsNaN(x) == x.k = "nan"

IsInf(x) == x.k = "inf"

IsNum(x) == x.k = "num"

\* Number.isFinite
IsFinite(x) == x.k = "num"

IsZero(x) == x.k = "num" /\ x.v = 0

\* Sign of a non-NaN value: -1, 0 or 1.
SignOf(x) == Sgn(x.v)

\* The === comparison of two numbers: NaN equals nothing, itself included.
StrictEq(x, y) == ~IsNaN(x) /\ ~IsNaN(y) /\ x = y

\* The < comparison of two numbers: false whenever a NaN takes part.
Less(x, y) ==
    /\ ~IsNaN(x) /\ ~IsNaN(y)
    /\ IF IsInf(x) THEN x = NegInf /\ y # NegInf
       ELSE IF IsInf(y) THEN y = PosInf
       ELSE x.v < y.v

\* x * y
Mul(x, y) ==
    IF IsNaN(x) \/ IsNaN(y) THEN NaN
    ELSE IF IsInf(x) \/ IsInf(y)
         THEN IF IsZero(x) \/ IsZero(y) THEN NaN ELSE Inf(SignOf(x) * SignOf(y))
    ELSE Num(MulQ(x.v, y.v))

\* x / y
Div(x, y) ==
    IF IsNaN(x) \/ IsNaN(y) THEN NaN
    ELSE IF IsInf(x) THEN IF IsInf(y) THEN NaN
                          ELSE Inf(SignOf(x) * (IF SignOf(y) < 0 THEN -1 ELSE 1))
    ELSE IF IsInf(y) THEN Num(0)
    ELSE IF y.v = 0 THEN IF x.v = 0 THEN NaN ELSE Inf(SignOf(x))
    ELSE Num(DivQ(x.v, y.v))

\* x + y
Add(x, y) ==
    IF IsNaN(x) \/ IsNaN(y) THEN NaN
    ELSE IF IsInf(x) THEN IF IsInf(y) /\ x # y THEN NaN ELSE x
    ELSE IF IsInf(y) THEN y
    ELSE Num(x.v + y.v)

\* x - y
Sub(x, y) == Add(x, IF IsNaN(y) THEN NaN ELSE [y EXCEPT !.v = -y.v])

\* Math.sqrt
Sqrt(x) ==
    IF IsNaN(x) THEN NaN
    ELSE IF SignOf(x) < 0 THEN NaN
    ELSE IF IsInf(x) THEN PosInf
    ELSE Num(SqrtQ(x.v))

\* Math.log
Log(x) ==
    IF IsNaN(x) THEN NaN
    ELSE IF SignOf(x) < 0 THEN NaN
    ELSE IF IsInf(x) THEN PosInf
    ELSE IF x.v = 0 THEN NegInf
    ELSE Num(LnQ(x.v))

\* x^n for a finite x and an integer n >= 0, by repeated multiplication.
RECURSIVE PowInt(_, _)
PowInt(x, n) == IF n = 0 THEN SC ELSE MulQ(x, PowInt(x, n - 1))

\* Math.pow for finite x and y, y # 0.
PowNum(x, y) ==
    IF y % SC = 0
    THEN IF y > 0 THEN Num(PowInt(x, y \div SC))
         ELSE IF x = 0 THEN PosInf
         ELSE Num(DivQ(SC, PowInt(x, (-y) \div SC)))
    ELSE IF x < 0 THEN NaN
    ELSE IF x = 0 THEN IF y > 0 THEN Num(0) ELSE PosInf
    ELSE Num(ExpQ(MulQ(y, LnQ(x))))

\* y is an odd integer
IsOddInt(y) == IsNum(y) /\ y.v % SC = 0 /\ (y.v \div SC) % 2 = 1

\* Math.pow (Number::exponentiate)
Pow(x, y) ==
    IF IsNaN(y) THEN NaN
    ELSE IF IsZero(y) THEN Num(SC)
    ELSE IF IsNaN(x) THEN NaN
    ELSE IF x = PosInf THEN IF SignOf(y) > 0 THEN PosInf ELSE Num(0)
    ELSE IF x = NegInf THEN IF SignOf(y) > 0
                            THEN IF IsOddInt(y) THEN NegInf ELSE PosInf
                            ELSE Num(0)
    ELSE IF IsInf(y)
         THEN IF Abs(x.v) = SC THEN NaN
              ELSE IF (Abs(x.v) > SC) = (SignOf(y) > 0) THEN PosInf ELSE Num(0)
    ELSE PowNum(x.v, y.v)

\* Number.prototype.toFixed(d) read back as a number: rounding to d decimals
\* (all the decimals held when d >= 5), halves away from zero.  NaN and the
\* infinities print as such.
ToFixed(x, d) ==
    IF ~IsNum(x) \/ d >= 5 THEN x
    ELSE LET u == 10^(5 - d)
         IN  Num(Sgn(x.v) * (((Abs(x.v) + u \div 2) \div u) * u))

--------------------------------------------------------------------------
(* The solver, calculateInductanceMatrix, operator by operator.            *)

\* A whole number as a JavaScript number.
Whole(n) == Num(n * SC)

\* COEFFICIENT = 0.2 mH/km
COEFFICIENT == 20000

\* The solid-conductor GMR factor 0.7788
GMR_FACTOR == 77880

\* r = (conductorDiameter / 100) / 2
Radius(conductorDiameter) == Div(Div(conductorDiameter, Whole(100)), Whole(2))

\* B = bundleSpacing / 100
SpacingMetres(bundleSpacing) == Div(bundleSpacing, Whole(100))

\* Mutant: the branch taken only when both tests hold (&& for ||).
SingleConductor_Both(N, B) == StrictEq(N, Whole(1)) /\ StrictEq(B, Whole(0))

\* N === 1 || B === 0
SingleConductor(N, B) == StrictEq(N, Whole(1)) \/ StrictEq(B, Whole(0))

\* Mutant: the geometric mean sqrt(r * B) for every bundle.
BundleRadius_Geometric(r, B, N) == Sqrt(Mul(r, B))

\* product = N * r * Math.pow(B, N - 1); req = Math.pow(product, 1 / N)
BundleRadius(r, B, N) ==
    LET product == Mul(Mul(N, r), Pow(B, Sub(N, Whole(1))))
    IN  Pow(product, Div(Whole(1), N))

\* The equivalent radius of step 1, on either branch.
EquivalentRadius(r, B, N) ==
    IF SingleConductor(N, B) THEN Mul(r, Num(GMR_FACTOR))
    ELSE BundleRadius(r, B, N)

\* Mutant: the ratio inverted, ln(req / 2H).
SelfCoefficient_Inverted(H, r_eq) == Log(Div(r_eq, Mul(Whole(2), H)))

\* P11 = Math.log((2 * H) / req)
SelfCoefficient(H, r_eq) == Log(Div(Mul(Whole(2), H), r_eq))

\* Mutant: the other diagonal entries taken from the scaled value.
CopyOfSelf_Scaled(p11) == Mul(p11, Num(COEFFICIENT))

\* P22 = P11, P33 = P11
CopyOfSelf(p11) == p11

\* I12 = Math.sqrt(4 * H * H + S * S)
ImageDistance12(H, S) == Sqrt(Add(Mul(Mul(Whole(4), H), H), Mul(S, S)))

\* Mutant: the image taken at depth H/2, ln(sqrt(H^2 + S^2) / S).
AdjacentCoefficient_HalfDepth(H, S) ==
    Log(Div(Sqrt(Add(Mul(H, H), Mul(S, S))), S))

\* P12 = Math.log(I12 / S)
AdjacentCoefficient(H, S) == Log(Div(ImageDistance12(H, S), S))

\* I13 = Math.sqrt(4 * H * H + 4 * S * S)
ImageDistance13(H, S) ==
    Sqrt(Add(Mul(Mul(Whole(4), H), H), Mul(Mul(Whole(4), S), S)))

\* Mutant: the outer image distance divided by S, not by 2S.
OuterCoefficient_SingleSpan(H, S) == Log(Div(ImageDistance13(H, S), S))

\* P13 = Math.log(I13 / (2 * S))
OuterCoefficient(H, S) == Log(Div(ImageDistance13(H, S), Mul(Whole(2), S)))

\* A 3x3 matrix from its rows, indexed 0..2 as in the source.
Matrix(r0, r1, r2) ==
    [i \in 0..2 |-> [j \in 0..2 |->
        (IF i = 0 THEN r0 ELSE IF i = 1 THEN r1 ELSE r2)[j + 1]]]

\* Mutant: the outer coefficient written at [1][0].
MaxwellMatrix_Misplaced(p11, p12, p13) ==
    Matrix(<<p11, p12, p13>>,
           <<p13, CopyOfSelf(p11), p12>>,
           <<p13, p12, CopyOfSelf(p11)>>)

\* maxwellMatrix = [[P11, P12, P13], [P12, P22, P12], [P13, P12, P33]]
MaxwellMatrix(p11, p12, p13) ==
    Matrix(<<p11, p12, p13>>,
           <<p12, CopyOfSelf(p11), p12>>,
           <<p13, p12, CopyOfSelf(p11)>>)

\* Mutant: the factor 0.02 for 0.2.
Scaled_Tenth(val) == Mul(val, Num(COEFFICIENT \div 10))

\* val * COEFFICIENT
Scaled(val) == Mul(val, Num(COEFFICIENT))

\* maxwellMatrix.map(row => row.map(val => val * COEFFICIENT))
ScaleMatrix(m) == [i \in 0..2 |-> [j \in 0..2 |-> Scaled(m[i][j])]]

\* Ls = P11 * COEFFICIENT
SelfInductance(p11) == Mul(p11, Num(COEFFICIENT))

\* Mutant: the plain mean of the two coefficients, (P12 + P13) / 2.
AverageCoefficient_Half(p12, p13) == Div(Add(p12, p13), Whole(2))

\* PmAvg = (2 * P12 + P13) / 3
AverageCoefficient(p12, p13) == Div(Add(Mul(Whole(2), p12), p13), Whole(3))

\* LmAvg = PmAvg * COEFFICIENT
AverageMutual(p12, p13) == Mul(AverageCoefficient(p12, p13), Num(COEFFICIENT))

\* Mutant: the self inductance written at [0][2].
TransposedMatrix_Corner(ls, lmAvg) ==
    Matrix(<<ls, lmAvg, ls>>, <<lmAvg, ls, lmAvg>>, <<lmAvg, lmAvg, ls>>)

\* inductanceTransposed = [[Ls, LmAvg, LmAvg], [LmAvg, Ls, LmAvg], [LmAvg, LmAvg, Ls]]
TransposedMatrix(ls, lmAvg) ==
    Matrix(<<ls, lmAvg, lmAvg>>, <<lmAvg, ls, lmAvg>>, <<lmAvg, lmAvg, ls>>)

\* One entry of steps: the label and formula texts, and the numbers printed
\* in the value and explanation strings, in order.
Step(label, formula, value, explanation) ==
    [label |-> label, formula |-> formula, value |-> value,
     explanation |-> explanation]

\* The step pushed for the equivalent radius r_eq of a bundle of n
\* sub-conductors spaced b metres apart, on either branch: lines 49-65.
RadiusStepFor(n, b, r_eq) ==
    LET value == <<ToFixed(Mul(r_eq, Whole(100)), 4), ToFixed(r_eq, 6)>>
    IN  IF SingleConductor(n, b)
        THEN Step("Equivalent Radius (Single Conductor)", "r_eq = r * 0.7788",
                  value, <<>>)
        ELSE Step("Equivalent Radius (Bundle)",
                  "r_eq = (N * r * R^(N-1))^(1/N)",
                  value, <<n, Mul(b, Whole(100))>>)

\* The step pushed for the self coefficient: lines 74-79.
SelfStep(h, r_eq, p11) ==
    Step("Self Maxwell Coefficient (P11 = P22 = P33)",
         "P_ii = ln(2H / r_eq)",
         <<ToFixed(p11, 4)>>,
         <<h, ToFixed(r_eq, 4), ToFixed(Div(Mul(Whole(2), h), r_eq), 4)>>)

\* The step pushed for the adjacent coefficient: lines 86-91.
AdjacentStep(h, s, p12) ==
    Step("Mutual Maxwell Coefficient (P12 = P23)",
         "P_12 = ln(sqrt(4H^2 + S^2) / S)",
         <<ToFixed(p12, 4)>>,
         <<h, s, s, ToFixed(ImageDistance12(h, s), 4), s,
           ToFixed(Div(ImageDistance12(h, s), s), 4)>>)

\* The step pushed for the outer coefficient: lines 98-103.
OuterStep(h, s, p13) ==
    Step("Mutual Maxwell Coefficient (P13)",
         "P_13 = ln(sqrt(4H^2 + 4S^2) / 2S)",
         <<ToFixed(p13, 4)>>,
         <<h, s, s, ToFixed(ImageDistance13(h, s), 4), Mul(Whole(2), s),
           ToFixed(Div(ImageDistance13(h, s), Mul(Whole(2), s)), 4)>>)

\* The step pushed for one inductance: value, then the explanation's numbers.
InductanceStep(label, formula, p, l) ==
    Step(label, formula, <<ToFixed(l, 4)>>, <<ToFixed(p, 4), ToFixed(l, 4)>>)

\* Mutant: only the self inductance is recorded.
InductanceSteps_SelfOnly(p11, p12, p13) ==
    << InductanceStep("Self Inductance (L_s)", "L_s = 0.2 * P_ii",
                      p11, SelfInductance(p11)) >>

\* The three steps pushed for Ls, Lm12 and Lm13: lines 121-140.
InductanceSteps(p11, p12, p13) ==
    << InductanceStep("Self Inductance (L_s)", "L_s = 0.2 * P_ii",
                      p11, SelfInductance(p11)),
       InductanceStep("Mutual Inductance (L12 = L23)", "L_12 = 0.2 * P_12",
                      p12, Mul(p12, Num(COEFFICIENT))),
       InductanceStep("Mutual Inductance (L13)", "L_13 = 0.2 * P_13",
                      p13, Mul(p13, Num(COEFFICIENT))) >>

\* The step pushed for the average mutual inductance: lines 147-152.
AverageStep(p12, p13, lmAvg) ==
    Step("Average Mutual Inductance (Transposed)",
         "L_m = 0.2 * (P12 + P23 + P13) / 3",
         <<ToFixed(lmAvg, 4)>>,
         <<ToFixed(p12, 4), ToFixed(p12, 4), ToFixed(p13, 4)>>)

\* The only element of a singleton: a value computed once and then named,
\* as a const of the function is.
Only(set) == CHOOSE x \in set : TRUE

\* The consts req, P11, P12 and P13 of a call with the argument p.
Coefficients(p) ==
    Only({ [req |-> r_eq,
            P11 |-> SelfCoefficient(p.height, r_eq),
            P12 |-> AdjacentCoefficient(p.height, p.phaseSeparation),
            P13 |-> OuterCoefficient(p.height, p.phaseSeparation)] :
           r_eq \in {EquivalentRadius(Radius(p.conductorDiameter),
                                      SpacingMetres(p.bundleSpacing),
                                      p.numberOfBundles)} })

\* The record returned by a call with the argument p whose consts are q.
ResultFrom(p, q) ==
    LET h     == p.height
        s     == p.phaseSeparation
        b     == SpacingMetres(p.bundleSpacing)
        n     == p.numberOfBundles
        mm    == MaxwellMatrix(q.P11, q.P12, q.P13)
        lmAvg == AverageMutual(q.P12, q.P13)
    IN  [returned |-> TRUE,
         req |-> q.req,
         maxwellMatrix |-> mm,
         inductanceUntransposed |-> ScaleMatrix(mm),
         inductanceTransposed |->
             TransposedMatrix(SelfInductance(q.P11), lmAvg),
         selfInductance |-> SelfInductance(q.P11),
         mutualInductanceAvg |-> lmAvg,
         steps |-> <<RadiusStepFor(n, b, q.req), SelfStep(h, q.req, q.P11),
                     AdjacentStep(h, s, q.P12), OuterStep(h, s, q.P13)>>
                   \o InductanceSteps(q.P11, q.P12, q.P13)
                   \o <<AverageStep(q.P12, q.P13, lmAvg)>>]

\* calculateInductanceMatrix as a function of its argument: the record the
\* blocks of lines 34-169 build, one after another.
calculateInductanceMatrix(p) ==
    Only({ ResultFrom(p, q) : q \in {Coefficients(p)} })

--------------------------------------------------------------------------
(* The inputs considered: the default line, neighbouring valid lines, the  *)
(* out-of-range values and the non-finite values of every field.           *)

Heights == {Whole(15), Whole(16), Whole(20), Whole(0), Whole(-5), NaN, PosInf}

Separations == {Whole(11), Whole(5), Whole(0), NaN}

Diameters == {Num(318000), Whole(0), Whole(-1), PosInf}

Spacings == {Num(4572000), Whole(30), Whole(0), NaN}

BundleCounts == {Whole(1), Whole(2), Whole(3), NaN}

\* LineParameters
ParamSpace ==
    [height : Heights, phaseSeparation : Separations,
     conductorDiameter : Diameters, bundleSpacing : Spacings,
     numberOfBundles : BundleCounts]

\* The five fields of LineParameters.
Fields ==
    {"height", "phaseSeparation", "conductorDiameter", "bundleSpacing",
     "numberOfBundles"}

\* defaultParams of the calculator page.
defaultParams ==
    [height |-> Whole(15), phaseSeparation |-> Whole(11),
     conductorDiameter |-> Num(318000), bundleSpacing |-> Num(4572000),
     numberOfBundles |-> Whole(2)]

NoMatrix == [i \in 0..2 |-> [j \in 0..2 |-> Unset]]

NoParams == [f \in Fields |-> Unset]

NoResult == [returned |-> FALSE]

\* No field has been edited yet.
NoText == [kind |-> "none"]

\* No array of rows yet, and no value returned by formatMatrix yet.
NoArray == [rows |-> <<>>, arrays |-> {}]

NoFormat == [returned |-> FALSE]

--------------------------------------------------------------------------
(* One invocation of calculateInductanceMatrix, block by block.            *)

VARIABLES
    pc,                     \* the block the invocation is about to run
    params,                 \* the LineParameters of the invocation
    req, P11, P12, P13,     \* locals of the invocation
    maxwellMatrix, inductanceUntransposed,
    Ls, Lm12, Lm13, LmAvg,
    steps,                  \* the steps array
    outcome,                \* "none", "returned" or "threw"
    result,                 \* the CalculationResults returned
    argument,               \* the caller's record, passed as params
    heapTop,                \* the number of arrays allocated so far
    owned,                  \* the arrays allocated by the invocation
    calls                   \* the invocations that have ended, in order

\* formatMatrix: its argument, its precision and what it returned.
VARIABLES matrix, precision, formatted

\* The calculator page: its state (params is uiParams here), the memoized
\* results, the last event handled and the text of the last field edit.
VARIABLES uiParams, calculated, results, lastEvent, lastText

solverVars ==
    <<pc, params, req, P11, P12, P13, maxwellMatrix, inductanceUntransposed,
      Ls, Lm12, Lm13, LmAvg, steps, outcome, result>>

heapVars == <<argument, heapTop, owned, calls>>

formatVars == <<matrix, precision, formatted>>

pageVars == <<uiParams, calculated, results, lastEvent, lastText>>

vars == <<solverVars, heapVars, formatVars, pageVars>>

H == params.height

S == params.phaseSeparation

r == Radius(params.conductorDiameter)

B == SpacingMetres(params.bundleSpacing)

N == params.numberOfBundles

\* No invocation has begun.
SolverInit ==
    /\ pc = "idle"
    /\ params = NoParams
    /\ req = Unset /\ P11 = Unset /\ P12 = Unset /\ P13 = Unset
    /\ maxwellMatrix = NoMatrix /\ inductanceUntransposed = NoMatrix
    /\ Ls = Unset /\ Lm12 = Unset /\ Lm13 = Unset /\ LmAvg = Unset
    /\ steps = <<>>
    /\ outcome = "none"
    /\ result = NoResult
    /\ argument = NoParams
    /\ heapTop = 0
    /\ owned = {}
    /\ calls = <<>>

\* formatMatrix has not been called.
FormatInit ==
    /\ matrix = NoArray
    /\ precision = <<>>
    /\ formatted = NoFormat

\* The page as first rendered: useState(defaultParams), useState(false).
PageInit ==
    /\ uiParams = defaultParams
    /\ calculated = FALSE
    /\ results = NoResult
    /\ lastEvent = "mount"
    /\ lastText = NoText

Init == SolverInit /\ FormatInit /\ PageInit

\* The identities of n arrays allocated now.
Fresh(n) == (heapTop + 1)..(heapTop + n)

\* Mutant: one steps array kept at module level and shared by every call.
NewStepsArray_Shared == {0}

\* const steps: CalculationStep[] = []: a new array object.
NewStepsArray == Fresh(1)

\* Mutant: the steps of earlier invocations are still in the array.
EmptySteps_Kept == steps

\* const steps: CalculationStep[] = []: the array is empty.
EmptySteps == <<>>

\* The function is entered with the record p: lines 34-42.
Enter(p) ==
    /\ argument' = p
    /\ params' = p
    /\ req' = Unset /\ P11' = Unset /\ P12' = Unset /\ P13' = Unset
    /\ maxwellMatrix' = NoMatrix /\ inductanceUntransposed' = NoMatrix
    /\ Ls' = Unset /\ Lm12' = Unset /\ Lm13' = Unset /\ LmAvg' = Unset
    /\ steps' = EmptySteps
    /\ owned' = NewStepsArray
    /\ heapTop' = heapTop + 1
    /\ outcome' = "none"
    /\ result' = NoResult
    /\ pc' = "radius"
    /\ UNCHANGED <<calls, formatVars, pageVars>>

\* calculateInductanceMatrix(p) is called for the first time.
Call(p) == pc = "idle" /\ Enter(p)

\* The step pushed for the equivalent radius, on either branch.
RadiusStep(r_eq) == RadiusStepFor(N, B, r_eq)

\* Step 1, lines 44-66.
ComputeRadius ==
    /\ pc = "radius"
    /\ req' = EquivalentRadius(r, B, N)
    /\ steps' = Append(steps, RadiusStep(req'))
    /\ pc' = "self"
    /\ UNCHANGED <<params, P11, P12, P13, maxwellMatrix,
                   inductanceUntransposed, Ls, Lm12, Lm13, LmAvg, outcome,
                   result>>
    /\ UNCHANGED <<heapVars, formatVars, pageVars>>

\* Lines 68-79.
ComputeSelf ==
    /\ pc = "self"
    /\ P11' = SelfCoefficient(H, req)
    /\ steps' = Append(steps, SelfStep(H, req, P11'))
    /\ pc' = "adjacent"
    /\ UNCHANGED <<params, req, P12, P13, maxwellMatrix,
                   inductanceUntransposed, Ls, Lm12, Lm13, LmAvg, outcome,
                   result>>
    /\ UNCHANGED <<heapVars, formatVars, pageVars>>

\* Lines 81-91.
ComputeAdjacent ==
    /\ pc = "adjacent"
    /\ P12' = AdjacentCoefficient(H, S)
    /\ steps' = Append(steps, AdjacentStep(H, S, P12'))
    /\ pc' = "outer"
    /\ UNCHANGED <<params, req, P11, P13, maxwellMatrix,
                   inductanceUntransposed, Ls, Lm12, Lm13, LmAvg, outcome,
                   result>>
    /\ UNCHANGED <<heapVars, formatVars, pageVars>>

\* Lines 93-103.
ComputeOuter ==
    /\ pc = "outer"
    /\ P13' = OuterCoefficient(H, S)
    /\ steps' = Append(steps, OuterStep(H, S, P13'))
    /\ pc' = "maxwell"
    /\ UNCHANGED <<params, req, P11, P12, maxwellMatrix,
                   inductanceUntransposed, Ls, Lm12, Lm13, LmAvg, outcome,
                   result>>
    /\ UNCHANGED <<heapVars, formatVars, pageVars>>

\* Lines 105-110.
BuildMaxwell ==
    /\ pc = "maxwell"
    /\ maxwellMatrix' = MaxwellMatrix(P11, P12, P13)
    /\ pc' = "scale"
    /\ UNCHANGED <<params, req, P11, P12, P13, inductanceUntransposed, Ls,
                   Lm12, Lm13, LmAvg, steps, outcome, result>>
    /\ owned' = owned \cup Fresh(4)
    /\ heapTop' = heapTop + 4
    /\ UNCHANGED <<argument, calls, formatVars, pageVars>>

\* Step 3, lines 112-140.
ScaleToInductance ==
    /\ pc = "scale"
    /\ inductanceUntransposed' = ScaleMatrix(maxwellMatrix)
    /\ Ls' = SelfInductance(P11)
    /\ Lm12' = Mul(P12, Num(COEFFICIENT))
    /\ Lm13' = Mul(P13, Num(COEFFICIENT))
    /\ steps' = steps \o InductanceSteps(P11, P12, P13)
    /\ pc' = "transpose"
    /\ UNCHANGED <<params, req, P11, P12, P13, maxwellMatrix, LmAvg, outcome,
                   result>>
    /\ owned' = owned \cup Fresh(4)
    /\ heapTop' = heapTop + 4
    /\ UNCHANGED <<argument, calls, formatVars, pageVars>>

\* Step 4, lines 142-152.
AverageMutuals ==
    /\ pc = "transpose"
    /\ LmAvg' = AverageMutual(P12, P13)
    /\ steps' = Append(steps, AverageStep(P12, P13, LmAvg'))
    /\ pc' = "return"
    /\ UNCHANGED <<params, req, P11, P12, P13, maxwellMatrix,
                   inductanceUntransposed, Ls, Lm12, Lm13, outcome, result>>
    /\ UNCHANGED <<heapVars, formatVars, pageVars>>

\* The record returned, lines 154-168.
ResultRecord ==
    [returned |-> TRUE,
     req |-> req,
     maxwellMatrix |-> maxwellMatrix,
     inductanceUntransposed |-> inductanceUntransposed,
     inductanceTransposed |-> TransposedMatrix(Ls, LmAvg),
     selfInductance |-> Ls,
     mutualInductanceAvg |-> LmAvg,
     steps |-> steps]

\* Lines 154-169: the function returns; no statement of it throws.
Return ==
    /\ pc = "return"
    /\ result' = ResultRecord
    /\ outcome' = "returned"
    /\ owned' = owned \cup Fresh(4)
    /\ heapTop' = heapTop + 4
    /\ calls' = Append(calls,
          [argument |-> argument, params |-> params, result |-> result',
           arrays |-> owned'])
    /\ pc' = "done"
    /\ UNCHANGED <<params, req, P11, P12, P13, maxwellMatrix,
                   inductanceUntransposed, Ls, Lm12, Lm13, LmAvg, steps,
                   argument, formatVars, pageVars>>

Next ==
    \/ \E p \in ParamSpace : Call(p)
    \/ ComputeRadius
    \/ ComputeSelf
    \/ ComputeAdjacent
    \/ ComputeOuter
    \/ BuildMaxwell
    \/ ScaleToInductance
    \/ AverageMutuals
    \/ Return

Spec == Init /\ [][Next]_vars

--------------------------------------------------------------------------
(* Several invocations, one after another.                                 *)

\* The number of invocations followed.
MaxCalls == 3

\* The lines solved repeatedly: the default line, a single conductor, a
\* line on the ground and a line with a NaN separation.
RepeatParams ==
    {defaultParams,
     [defaultParams EXCEPT !.numberOfBundles = Whole(1)],
     [defaultParams EXCEPT !.height = Whole(0)],
     [defaultParams EXCEPT !.phaseSeparation = NaN]}

\* calculateInductanceMatrix(p) is called again after an earlier call.
CallAgain(p) == pc = "done" /\ Len(calls) < MaxCalls /\ Enter(p)

RepeatNext ==
    \/ \E p \in RepeatParams : Call(p)
    \/ \E p \in RepeatParams : CallAgain(p)
    \/ ComputeRadius
    \/ ComputeSelf
    \/ ComputeAdjacent
    \/ ComputeOuter
    \/ BuildMaxwell
    \/ ScaleToInductance
    \/ AverageMutuals
    \/ Return

RepeatSpec == Init /\ [][RepeatNext]_vars

--------------------------------------------------------------------------
(* The calculator page, InductanceCalculator, and its InputField.          *)

\* The text of a number, and three texts that are not finite numbers: the
\* empty text of a cleared field, a word such as "abc", and "1e999".
NumberText(n) == [kind |-> "number", v |-> n]

EmptyText == [kind |-> "empty"]

WordText == [kind |-> "word"]

HugeText == [kind |-> "huge"]

\* The texts typed into a field: "0", "-5", "2.5" and the three above.
TypedTexts ==
    {NumberText(0), NumberText(-5 * SC), NumberText(5 * (SC \div 2)),
     EmptyText, WordText, HugeText}

\* e.target.value of an <input type="number">: the text when it is a valid
\* floating-point number with a finite value, the empty text otherwise.
TargetValue(text) == IF text.kind = "number" THEN text ELSE EmptyText

\* parseFloat(text)
parseFloat(text) ==
    IF text.kind = "number" THEN Num(text.v)
    ELSE IF text.kind = "huge" THEN PosInf
    ELSE NaN

\* Mutant: the parsed value passed on as it is.
OrZero_Absent(x) == x

\* x || 0: NaN and 0 are falsy.
OrZero(x) == IF IsNaN(x) \/ IsZero(x) THEN Whole(0) ELSE x

\* Math.round(x): the nearest whole number, halves upwards.
MathRound(x) ==
    IF ~IsNum(x) THEN x ELSE Num(((2 * x.v + SC) \div (2 * SC)) * SC)

\* Math.max(x, y): NaN when either is NaN.
MathMax(x, y) ==
    IF IsNaN(x) \/ IsNaN(y) THEN NaN ELSE IF Less(x, y) THEN y ELSE x

\* Mutant: the number of sub-conductors stored as typed.
FieldValue_AsTyped(key, v) == v

\* The onChange the page gives the field of key: the number of
\* sub-conductors is rounded and kept at 1 or more (lines 114-123).
FieldValue(key, v) ==
    IF key = "numberOfBundles" THEN MathMax(Whole(1), MathRound(v)) ELSE v

\* The fields rendered: the bundle spacing only for two or more
\* sub-conductors (lines 125-136).
Rendered(key) ==
    key = "bundleSpacing" => Less(Whole(1), uiParams.numberOfBundles)

\* results = useMemo(...): null unless calculated, else the solver's record;
\* the catch returns null, and no statement of the solver throws.
Memo(p, c) == IF ~c THEN NoResult ELSE calculateInductanceMatrix(p)

\* The argument the memo passes to the solver in that render, if it calls it.
MemoArgument(p, c) == IF ~c THEN NoParams ELSE p

\* Mutant: calculated is left as it was.
CalculatedAfterUpdate_Kept == calculated

\* setCalculated(false) of updateParam.
CalculatedAfterUpdate == FALSE

\* Mutant: the new params are built from defaultParams, not from prev.
updateParam_FromDefaults(key, v) ==
    /\ uiParams' = [defaultParams EXCEPT ![key] = v]
    /\ calculated' = CalculatedAfterUpdate
    /\ results' = Memo(uiParams', calculated')
    /\ argument' = MemoArgument(uiParams', calculated')
    /\ lastEvent' = "updateParam"

\* updateParam(key, v): setParams(prev => ({...prev, [key]: v}));
\* setCalculated(false); then the page renders.
updateParam(key, v) ==
    /\ uiParams' = [uiParams EXCEPT ![key] = v]
    /\ calculated' = CalculatedAfterUpdate
    /\ results' = Memo(uiParams', calculated')
    /\ argument' = MemoArgument(uiParams', calculated')
    /\ lastEvent' = "updateParam"

\* The user edits the field of key, leaving text in it: InputField's
\* onChange, lines 38-46 of InputField.tsx.
OnChange(key, text) ==
    /\ Rendered(key)
    /\ updateParam(key, FieldValue(key, OrZero(parseFloat(TargetValue(text)))))
    /\ lastText' = text
    /\ UNCHANGED <<solverVars, heapTop, owned, calls, formatVars>>

\* handleCalculate: setCalculated(true); the render calls the solver with
\* the params of the page.
handleCalculate ==
    /\ calculated' = TRUE
    /\ results' = Memo(uiParams, calculated')
    /\ argument' = MemoArgument(uiParams, calculated')
    /\ lastEvent' = "handleCalculate"
    /\ UNCHANGED <<uiParams, lastText, solverVars, heapTop, owned, calls,
                   formatVars>>

\* Mutant: the reset hides the results and keeps the params.
handleReset_ParamsKept ==
    /\ calculated' = FALSE
    /\ results' = Memo(uiParams, calculated')
    /\ argument' = MemoArgument(uiParams, calculated')
    /\ lastEvent' = "handleReset"
    /\ UNCHANGED <<uiParams, lastText, solverVars, heapTop, owned, calls,
                   formatVars>>

\* handleReset: setParams(defaultParams); setCalculated(false).
handleReset ==
    /\ uiParams' = defaultParams
    /\ calculated' = FALSE
    /\ results' = Memo(uiParams', calculated')
    /\ argument' = MemoArgument(uiParams', calculated')
    /\ lastEvent' = "handleReset"
    /\ UNCHANGED <<lastText, solverVars, heapTop, owned, calls, formatVars>>

\* The results panel shows the placeholder: !results (line 163).
ShowsPlaceholder == ~results.returned

PageNext ==
    \/ \E key \in Fields, text \in TypedTexts : OnChange(key, text)
    \/ handleCalculate
    \/ handleReset

PageSpec == Init /\ [][PageNext]_vars

--------------------------------------------------------------------------
(* formatMatrix(matrix, precision = 4), lines 171-173.                     *)

\* The text val.toFixed(d) of a number: "NaN", "Infinity" or "-Infinity"
\* for the values that are not finite; otherwise a sign, written whenever
\* val < 0 (so -0.00001 gives "-0.0000"), and the magnitude rounded to d
\* decimals, ties away from zero, held as a count of units of 10^-d.
toFixed(val, d) ==
    IF IsNaN(val) THEN [text |-> "NaN"]
    ELSE IF IsInf(val)
         THEN [text |-> IF val = PosInf THEN "Infinity" ELSE "-Infinity"]
    ELSE [text |-> "digits",
          minus |-> val.v < 0,
          units |-> IF d >= 5 THEN Abs(val.v) * 10^(d - 5)
                    ELSE (Abs(val.v) + (10^(5 - d)) \div 2) \div 10^(5 - d),
          decimals |-> d]

\* precision: number = 4
DefaultPrecision == 4

\* Mutant: two decimals when no precision is passed.
PrecisionOf_Two(prec) == IF prec = <<>> THEN 2 ELSE prec[1]

\* The parameter precision: the default when the argument is absent.
PrecisionOf(prec) == IF prec = <<>> THEN DefaultPrecision ELSE prec[1]

\* matrix.map(row => row.map(val => val.toFixed(precision)))
formatMatrix(m, prec) ==
    [i \in DOMAIN m |->
        [j \in DOMAIN m[i] |-> toFixed(m[i][j], PrecisionOf(prec))]]

\* The largest number of rows, and of entries in a row, of a matrix formatted.
MaxRows == 2

MaxCols == 2

\* The entries formatted: 1.06637, -0.00001 and NaN.
FormatEntries == {Num(106637), Num(-1), NaN}

\* The sequences over a set of at most n elements.
SeqUpTo(set, n) == UNION {[1..k -> set] : k \in 0..n}

\* The matrices formatted: rows need not have the same length.
FormatMatrices == SeqUpTo(SeqUpTo(FormatEntries, MaxCols), MaxRows)

\* The precision argument: absent, or 0, 2 or 4.
FormatPrecisions == {<<>>, <<0>>, <<2>>, <<4>>}

\* One call formatMatrix(m, prec): m is an array of row arrays the caller
\* holds; map builds a new outer array and a new array for every row, and
\* assigns to no element of m.
FormatCall(m, prec) ==
    /\ ~formatted.returned
    /\ matrix' = [rows |-> m, arrays |-> Fresh(1 + Len(m))]
    /\ precision' = prec
    /\ formatted' =
          [returned |-> TRUE,
           given |-> m,
           rows |-> formatMatrix(m, prec),
           arrays |-> (heapTop + 1 + Len(m) + 1)..(heapTop + 2 * (1 + Len(m)))]
    /\ heapTop' = heapTop + 2 * (1 + Len(m))
    /\ UNCHANGED <<solverVars, argument, owned, calls, pageVars>>

\* The page formats a matrix once it has one to show.
FormatNext ==
    /\ ~formatted.returned
    /\ \E m \in FormatMatrices, prec \in FormatPrecisions : FormatCall(m, prec)

FormatSpec == Init /\ [][FormatNext]_vars

--------------------------------------------------------------------------
(* Vocabulary of the properties.                                           *)

Positive(x) == Less(Whole(0), x)

\* x <= 0 as JavaScript compares.
NonPositive(x) == Less(x, Whole(0)) \/ StrictEq(x, Whole(0))

WholeNumber(x) == IsNum(x) /\ x.v % SC = 0

\* Every field is a finite number.
AllFinite(p) == \A f \in Fields : IsFinite(p[f])

\* The ranges the data model gives the five fields.
Valid(p) ==
    /\ AllFinite(p)
    /\ Positive(p.height)
    /\ Positive(p.phaseSeparation)
    /\ Positive(p.conductorDiameter)
    /\ ~Less(p.bundleSpacing, Whole(0))
    /\ WholeNumber(p.numberOfBundles) /\ ~Less(p.numberOfBundles, Whole(1))

\* The invocation has returned a record to its caller.
Returned == pc = "done" /\ outcome = "returned"

\* The invocation has ended by signalling a failure to its caller.
Failed == pc = "done" /\ outcome = "threw"

\* Every number held in a matrix.
Entries(m) == {m[i][j] : i \in 0..2, j \in 0..2}

\* The numbers of a returned record: its scalars and the entries of its
\* three matrices.
NumbersOf(res) ==
    {res.req, res.selfInductance, res.mutualInductanceAvg}
        \cup Entries(res.maxwellMatrix)
        \cup Entries(res.inductanceUntransposed)
        \cup Entries(res.inductanceTransposed)

\* selfInductance of the result for the parameters p, as the solver
\* computes it.
SelfInductanceFor(p) ==
    SelfInductance(
        SelfCoefficient(p.height,
            EquivalentRadius(Radius(p.conductorDiameter),
                             SpacingMetres(p.bundleSpacing),
                             p.numberOfBundles)))

\* 0.2 and 0.7788, written independently of the solver's constants.
OneFifth == Div(Whole(1), Whole(5))

Factor7788 == Div(Num(778800), Whole(10))

\* x lies within half a unit of the third decimal place of the decimal
\* number milli / 1000.
ToThreePlaces(x, milli) ==
    IsNum(x) /\ 2 * Abs(x.v - milli * (SC \div 1000)) < SC \div 1000

--------------------------------------------------------------------------
\* A call with phaseSeparation 0 and the other four fields valid has ended.
ZeroSeparationCall ==
    /\ pc = "done"
    /\ StrictEq(params.phaseSeparation, Whole(0))
    /\ Valid([params EXCEPT !.phaseSeparation = Whole(11)])

(* C1.  Called with phaseSeparation = 0 and every other parameter valid,   *)
(* the solver raises a domain error; it never returns a record whose       *)
(* matrices or scalars hold Infinity or NaN.                               *)

C1_ZeroSeparationRaises ==
    ZeroSeparationCall =>
        /\ Failed
        /\ ~(result.returned /\ \E x \in NumbersOf(result) : ~IsFinite(x))

\* A call with finite fields and height <= 0 or conductorDiameter <= 0 has
\* ended.
OutOfRangeCall ==
    /\ pc = "done"
    /\ AllFinite(params)
    /\ NonPositive(params.height) \/ NonPositive(params.conductorDiameter)

(* C2.  Called with height <= 0, or with conductorDiameter <= 0 (an        *)
(* equivalent radius that is zero or negative), the solver signals a       *)
(* failure to its caller instead of returning a record.                    *)

C2_OutOfRangeSignalsFailure == OutOfRangeCall => Failed /\ ~result.returned

\* A call with NaN or an infinity in some field has ended.
NonFiniteCall == pc = "done" /\ ~AllFinite(params)

(* C3.  Called with NaN or an infinity in any of the five fields, the      *)
(* solver fails rather than returning a record.                            *)

C3_NonFiniteRejected == NonFiniteCall => Failed /\ ~result.returned

(* C4.  For every valid input the returned maxwellMatrix is symmetric:     *)
(* maxwellMatrix[i][j] === maxwellMatrix[j][i] for all i, j in 0..2.       *)

C4_MaxwellSymmetric ==
    (Returned /\ Valid(params)) =>
        \A i \in 0..2, j \in 0..2 :
            StrictEq(result.maxwellMatrix[i][j], result.maxwellMatrix[j][i])

\* A valid call has returned a matrix whose adjacent and outer entries
\* differ, so that its symmetry is not that of a constant matrix.
C4_Witness ==
    /\ Returned /\ Valid(params)
    /\ IsNum(result.maxwellMatrix[0][1]) /\ IsNum(result.maxwellMatrix[0][2])
    /\ result.maxwellMatrix[0][1] # result.maxwellMatrix[0][2]
    /\ result.maxwellMatrix[1][0] = result.maxwellMatrix[0][1]

(* C5.  For every input, the three diagonal entries of the returned        *)
(* maxwellMatrix hold one and the same value.                              *)

C5_DiagonalUniform ==
    Returned =>
        /\ result.maxwellMatrix[0][0] = result.maxwellMatrix[1][1]
        /\ result.maxwellMatrix[1][1] = result.maxwellMatrix[2][2]
        /\ result.maxwellMatrix[0][0] = P11

\* A call has returned a matrix whose diagonal is a number different from
\* its off-diagonal entries.
C5_Witness ==
    /\ Returned
    /\ IsNum(result.maxwellMatrix[1][1])
    /\ result.maxwellMatrix[1][1] # result.maxwellMatrix[1][0]
    /\ result.maxwellMatrix[2][2] # result.maxwellMatrix[2][0]

(* C6.  For every valid input and all i, j in 0..2,                        *)
(* inductanceUntransposed[i][j] is 0.2 times maxwellMatrix[i][j] of the    *)
(* same record, and selfInductance is 0.2 times maxwellMatrix[0][0].       *)

C6_ScaleLaw ==
    (Returned /\ Valid(params)) =>
        /\ \A i \in 0..2, j \in 0..2 :
              StrictEq(result.inductanceUntransposed[i][j],
                       Mul(OneFifth, result.maxwellMatrix[i][j]))
        /\ StrictEq(result.selfInductance,
                    Mul(OneFifth, result.maxwellMatrix[0][0]))

\* A valid call has returned non-zero inductances in every position.
C6_Witness ==
    /\ Returned /\ Valid(params)
    /\ \A i \in 0..2, j \in 0..2 :
          /\ IsNum(result.inductanceUntransposed[i][j])
          /\ result.inductanceUntransposed[i][j].v # 0
          /\ result.inductanceUntransposed[i][j] # result.maxwellMatrix[i][j]

(* C7.  In every returned record, each diagonal entry of                   *)
(* inductanceTransposed is the record's selfInductance and each            *)
(* off-diagonal entry is its mutualInductanceAvg.                          *)

C7_TransposedUniform ==
    Returned =>
        \A i \in 0..2, j \in 0..2 :
            result.inductanceTransposed[i][j] =
                IF i = j THEN result.selfInductance
                ELSE result.mutualInductanceAvg

\* A call has returned distinct finite self and average mutual inductances.
C7_Witness ==
    /\ Returned
    /\ IsNum(result.selfInductance) /\ IsNum(result.mutualInductanceAvg)
    /\ result.selfInductance # result.mutualInductanceAvg
    /\ result.inductanceTransposed[0][1] = result.mutualInductanceAvg

(* C8.  With numberOfBundles = 1 the returned req is                       *)
(* (conductorDiameter / 200) * 0.7788, whatever bundleSpacing is.          *)

C8_BundleReduction ==
    (Returned /\ StrictEq(params.numberOfBundles, Whole(1))) =>
        result.req =
            Mul(Div(params.conductorDiameter, Whole(200)), Factor7788)

\* A single-conductor call with a non-zero bundle spacing has returned a
\* positive radius.
C8_Witness ==
    /\ Returned
    /\ StrictEq(params.numberOfBundles, Whole(1))
    /\ Positive(params.bundleSpacing)
    /\ Positive(result.req)

\* The finite heights above the height of the call.
TallerHeights == {h \in Heights : IsFinite(h) /\ Less(params.height, h)}

(* C9.  With the other parameters fixed and valid, a strictly larger       *)
(* height gives a strictly larger selfInductance: the record returned for  *)
(* height H1 has a smaller selfInductance than the solver gives for every  *)
(* valid height H2 > H1.                                                   *)

C9_HeightMonotone ==
    (Returned /\ Valid(params)) =>
        \A h2 \in TallerHeights :
            Less(result.selfInductance,
                 SelfInductanceFor([params EXCEPT !.height = h2]))

\* A valid call has returned and there are two taller lines to compare
\* it with.
C9_Witness ==
    /\ Returned /\ Valid(params)
    /\ Cardinality(TallerHeights) >= 2
    /\ IsNum(result.selfInductance)

\* The call for the default line has returned.
DefaultCall == Returned /\ params = defaultParams

(* C10.  For the default parameters the solver reproduces the worked       *)
(* example to 3 decimal places: req 0.1206, P_11 5.517, P_12 1.067,        *)
(* P_13 0.526, selfInductance 1.103 and mutualInductanceAvg 0.178.         *)

C10_WorkedExampleAsStated ==
    DefaultCall =>
        /\ ToFixed(result.req, 4) = Num(12060)
        /\ ToThreePlaces(result.maxwellMatrix[0][0], 5517)
        /\ ToThreePlaces(result.maxwellMatrix[0][1], 1067)
        /\ ToThreePlaces(result.maxwellMatrix[0][2], 526)
        /\ ToThreePlaces(result.selfInductance, 1103)
        /\ ToThreePlaces(result.mutualInductanceAvg, 178)

\* C10 as amended: req 0.1206, P_11 5.517, P_12 1.066, P_13 0.525,
\* selfInductance 1.103 and mutualInductanceAvg 0.177, to 3 decimal places.
C10_WorkedExample ==
    DefaultCall =>
        /\ ToFixed(result.req, 4) = Num(12060)
        /\ ToThreePlaces(result.maxwellMatrix[0][0], 5517)
        /\ ToThreePlaces(result.maxwellMatrix[0][1], 1066)
        /\ ToThreePlaces(result.maxwellMatrix[0][2], 525)
        /\ ToThreePlaces(result.selfInductance, 1103)
        /\ ToThreePlaces(result.mutualInductanceAvg, 177)

\* The default line has been solved on the bundle branch.
C10_Witness ==
    /\ DefaultCall
    /\ steps[1].label = "Equivalent Radius (Bundle)"
    /\ IsNum(result.mutualInductanceAvg)

--------------------------------------------------------------------------
(* Claims about the quantities of one result (Spec).                       *)

\* The radius branch the data model describes: one sub-conductor, or a
\* bundle spacing of zero.
SingleBranch(p) ==
    StrictEq(p.numberOfBundles, Whole(1)) \/ StrictEq(p.bundleSpacing, Whole(0))

(* C14. The equivalent radius is chosen by branch: when numberOfBundles is
   1 or bundleSpacing is 0 (a bundle of two or more with spacing 0
   included) req = r x 0.7788; otherwise req = (N x r x B^(N-1))^(1/N),
   with r = conductorDiameter / 200 and B = bundleSpacing / 100.           *)
C14_RadiusByBranch ==
    Returned =>
        LET rr == Div(params.conductorDiameter, Whole(200))
            bb == Div(params.bundleSpacing, Whole(100))
            nn == params.numberOfBundles
        IN  result.req =
                IF SingleBranch(params) THEN Mul(rr, Factor7788)
                ELSE Pow(Mul(Mul(nn, rr), Pow(bb, Sub(nn, Whole(1)))),
                         Div(Whole(1), nn))

\* A bundle of three sub-conductors 30 cm apart has been solved: the bundle
\* branch gave a finite positive radius.
C14_Witness ==
    /\ Returned
    /\ params.numberOfBundles = Whole(3)
    /\ params.bundleSpacing = Whole(30)
    /\ ~SingleBranch(params)
    /\ Positive(result.req)
    /\ steps[1].label = "Equivalent Radius (Bundle)"

(* C15. The Maxwell matrix is assembled so that the four adjacent-phase
   entries [0][1], [1][0], [1][2], [2][1] all hold the adjacent coefficient
   P_12 = ln(sqrt(4H^2 + S^2) / S), the two outer entries [0][2], [2][0]
   both hold P_13 = ln(sqrt(4H^2 + 4S^2) / (2S)), and the diagonal holds
   P_ii = ln(2H / req).                                                    *)
C15_MaxwellAssembly ==
    Returned =>
        LET hh   == params.height
            ss   == params.phaseSeparation
            h2   == Mul(Whole(4), Mul(hh, hh))
            s2   == Mul(ss, ss)
            p_12 == Log(Div(Sqrt(Add(h2, s2)), ss))
            p_13 == Log(Div(Sqrt(Add(h2, Mul(Whole(4), s2))),
                            Mul(Whole(2), ss)))
            p_ii == Log(Div(Mul(Whole(2), hh), result.req))
            m    == result.maxwellMatrix
        IN  /\ \A e \in {<<0, 1>>, <<1, 0>>, <<1, 2>>, <<2, 1>>} :
                  m[e[1]][e[2]] = p_12
            /\ \A e \in {<<0, 2>>, <<2, 0>>} : m[e[1]][e[2]] = p_13
            /\ \A i \in 0..2 : m[i][i] = p_ii

\* A valid line has been solved and its two mutual coefficients are finite
\* and differ.
C15_Witness ==
    /\ Returned
    /\ Valid(params)
    /\ \A x \in Entries(result.maxwellMatrix) : IsFinite(x)
    /\ result.maxwellMatrix[0][1] # result.maxwellMatrix[0][2]
    /\ result.maxwellMatrix[0][0] # result.maxwellMatrix[0][1]

\* a and b are the same value, or finite and equal up to the rounding of
\* the operations that produced them (4 units of the last decimal kept).
SameUpToRounding(a, b) ==
    IF IsFinite(a) /\ IsFinite(b) THEN Abs(a.v - b.v) <= 4 ELSE a = b

(* C16. mutualInductanceAvg equals 0.2 x (2 x P_12 + P_13) / 3, where P_12
   and P_13 are the adjacent and the outer entry of the same result's
   maxwellMatrix; equivalently, 3 x mutualInductanceAvg equals the sum of
   the three upper-triangle off-diagonal entries of
   inductanceUntransposed.                                                 *)
C16_AverageMutual ==
    Returned =>
        LET m == result.maxwellMatrix
            l == result.inductanceUntransposed
        IN  /\ result.mutualInductanceAvg =
                  Mul(OneFifth,
                      Div(Add(Mul(Whole(2), m[0][1]), m[0][2]), Whole(3)))
            /\ SameUpToRounding(Mul(Whole(3), result.mutualInductanceAvg),
                                Add(Add(l[0][1], l[0][2]), l[1][2]))

\* A valid line has been solved: the average lies strictly between the
\* outer and the adjacent mutual inductance.
C16_Witness ==
    /\ Returned
    /\ Valid(params)
    /\ IsFinite(result.mutualInductanceAvg)
    /\ Less(result.inductanceUntransposed[0][2], result.mutualInductanceAvg)
    /\ Less(result.mutualInductanceAvg, result.inductanceUntransposed[0][1])

\* The labels of the eight steps after the first, in the order recorded.
LaterLabels ==
    << "Self Maxwell Coefficient (P11 = P22 = P33)",
       "Mutual Maxwell Coefficient (P12 = P23)",
       "Mutual Maxwell Coefficient (P13)",
       "Self Inductance (L_s)",
       "Mutual Inductance (L12 = L23)",
       "Mutual Inductance (L13)",
       "Average Mutual Inductance (Transposed)" >>

\* The label of the first step on either radius branch.
RadiusLabels ==
    {"Equivalent Radius (Single Conductor)", "Equivalent Radius (Bundle)"}

\* The quantity the k-th step reports, as the call holds it now.
Reported(k) == <<req, P11, P12, P13, Ls, Lm12, Lm13, LmAvg>>[k]

(* C17. Every returned result carries exactly 8 steps in this fixed order,
   on either radius branch: equivalent radius, self Maxwell coefficient,
   adjacent mutual coefficient, outer mutual coefficient, self inductance,
   adjacent mutual inductance, outer mutual inductance and, last, the
   transposed average mutual inductance; and at no moment of a call does
   steps hold a step whose quantity has not been computed yet.             *)
C17_EightStepsInOrder ==
    /\ Returned =>
          /\ Len(result.steps) = 8
          /\ result.steps[1].label \in RadiusLabels
          /\ \A k \in 2..8 : result.steps[k].label = LaterLabels[k - 1]
    /\ Len(steps) <= 8
    /\ \A k \in 1..Len(steps) :
          /\ Reported(k) # Unset
          /\ steps[k].value[Len(steps[k].value)]
                = ToFixed(Reported(k), IF k = 1 THEN 6 ELSE 4)
          /\ k >= 2 => steps[k].label = LaterLabels[k - 1]

\* A call on the single-conductor branch is under way: four steps are
\* recorded and the inductances are not computed yet.
C17_Witness ==
    /\ pc = "maxwell"
    /\ Len(steps) = 4
    /\ steps[1].label = "Equivalent Radius (Single Conductor)"
    /\ steps[4].label = "Mutual Maxwell Coefficient (P13)"
    /\ Ls = Unset

--------------------------------------------------------------------------
(* Claims about repeated invocations (RepeatSpec).                         *)

\* The invocations that have ended, by position in the history.
Ended == DOMAIN calls

(* C11. calculateInductanceMatrix is deterministic and independent of
   history: two invocations given equal LineParameters return equal
   results (equivalent radius, the three matrices, the two scalars and the
   steps), whatever invocations came before or between them; the result
   is the function of the argument alone.                                  *)
C11_HistoryIndependent ==
    /\ \A i, j \in Ended :
          calls[i].params = calls[j].params
              => calls[i].result = calls[j].result
    /\ \A i \in Ended :
          calls[i].result = calculateInductanceMatrix(calls[i].params)

\* Three invocations have ended; the first and the third were given the
\* same line and the one between them another line.
C11_Witness ==
    /\ Len(calls) = 3
    /\ calls[1].params = calls[3].params
    /\ calls[2].params # calls[1].params
    /\ calls[3].result.returned

(* C12. An invocation leaves the params record it was given unchanged, and
   its result is freshly constructed: the steps array and the rows and
   outer arrays of the three matrices of one invocation's result are
   thirteen arrays of their own, none of them shared with the result of
   any other invocation.                                                   *)
C12_FreshResult ==
    /\ pc # "idle" => params = argument
    /\ \A i \in Ended :
          /\ calls[i].params = calls[i].argument
          /\ Cardinality(calls[i].arrays) = 13
    /\ \A i, j \in Ended :
          i # j => calls[i].arrays \cap calls[j].arrays = {}

\* Two invocations of the same line have ended, each with its own arrays.
C12_Witness ==
    /\ Len(calls) >= 2
    /\ calls[1].params = calls[2].params
    /\ calls[1].arrays # {}
    /\ calls[2].arrays # {}

--------------------------------------------------------------------------
(* Claims about formatMatrix (FormatSpec).                                 *)

\* A text is the rendering of x to d decimals: the text of a value that is
\* not finite, or d decimals of the nearest multiple of 10^-d with the sign
\* of x.
RendersTo(text, x, d) ==
    IF IsNaN(x) THEN text = [text |-> "NaN"]
    ELSE IF IsInf(x)
         THEN text.text = (IF SignOf(x) > 0 THEN "Infinity" ELSE "-Infinity")
    ELSE /\ text.text = "digits"
         /\ text.decimals = d
         /\ text.minus = Less(x, Whole(0))
         /\ 2 * Abs(text.units * 10^(5 - d) - Abs(x.v)) <= 10^(5 - d)

(* C13. formatMatrix does not modify the matrix it is given and returns a
   new matrix of strings with the same number of rows and the same number
   of entries in each row, every entry being the fixed-precision rendering
   of the number at the same position, with 4 decimals when no precision
   is passed.                                                              *)
C13_FormatMatrix ==
    formatted.returned =>
        /\ matrix.rows = formatted.given
        /\ formatted.arrays \cap matrix.arrays = {}
        /\ Cardinality(formatted.arrays) = 1 + Len(formatted.rows)
        /\ Len(formatted.rows) = Len(matrix.rows)
        /\ \A i \in 1..Len(matrix.rows) :
              /\ Len(formatted.rows[i]) = Len(matrix.rows[i])
              /\ \A j \in 1..Len(matrix.rows[i]) :
                    RendersTo(formatted.rows[i][j], matrix.rows[i][j],
                              IF precision = <<>> THEN 4 ELSE precision[1])

\* A matrix of two rows of different lengths was formatted with no
\* precision passed: 1.06637 reads 1.0664 and -0.00001 reads -0.0000.
C13_Witness ==
    /\ formatted.returned
    /\ precision = <<>>
    /\ matrix.rows = <<<<Num(106637), Num(-1)>>, <<NaN>>>>
    /\ formatted.rows[1][1] = [text |-> "digits", minus |-> FALSE,
                               units |-> 10664, decimals |-> 4]
    /\ formatted.rows[1][2] = [text |-> "digits", minus |-> TRUE,
                               units |-> 0, decimals |-> 4]
    /\ formatted.rows[2] = <<[text |-> "NaN"]>>

--------------------------------------------------------------------------
(* Claims about the calculator page (PageSpec).                            *)

(* C18. Malformed numeric input is stopped at the input boundary before it
   reaches the solver: after any sequence of field edits (empty and
   non-numeric text included) followed by Calculate, every one of the
   five parameter values passed to calculateInductanceMatrix is a finite
   number, never NaN.                                                      *)
C18_FiniteParameters ==
    /\ AllFinite(uiParams)
    /\ results.returned => argument = uiParams /\ AllFinite(argument)

\* The height field was left holding a word, the page took 0 for it, and
\* Calculate was pressed: the solver was given five finite numbers.
C18_Witness ==
    /\ lastEvent = "handleCalculate"
    /\ lastText = WordText
    /\ uiParams.height = Whole(0)
    /\ results.returned
    /\ AllFinite(argument)

\* Calculate was the last event and height or phaseSeparation is 0.
CalculatedAtZero ==
    /\ lastEvent = "handleCalculate"
    /\ \/ StrictEq(uiParams.height, Whole(0))
       \/ StrictEq(uiParams.phaseSeparation, Whole(0))

(* C19. The page treats out-of-range parameters as not a computed result:
   when Calculate is pressed while height or phaseSeparation is 0 (for
   example after a cleared field was taken as 0), results is null and the
   "Ready to Calculate" placeholder is shown instead of a results panel
   with matrices.                                                          *)
C19_ZeroShowsPlaceholder ==
    CalculatedAtZero => results = NoResult /\ ShowsPlaceholder

(* C20. Stale results are never displayed: in every reachable state of the
   page, results is non-null only if calculated is true and results is
   the solver's output for the current params; every updateParam sets
   calculated to false, so after an edit no results are shown until
   handleCalculate runs again.                                             *)
C20_NoStaleResults ==
    /\ results.returned =>
          /\ calculated
          /\ results = calculateInductanceMatrix(uiParams)
    /\ lastEvent = "updateParam" => ~calculated /\ ShowsPlaceholder
    /\ ~ShowsPlaceholder => lastEvent = "handleCalculate"

\* A field was edited while results were shown, and Calculate was pressed
\* again: the results shown are those of the edited params.
C20_Witness ==
    /\ lastEvent = "handleCalculate"
    /\ lastText = NumberText(5 * (SC \div 2))
    /\ uiParams.phaseSeparation = Num(5 * (SC \div 2))
    /\ results.returned
    /\ results # calculateInductanceMatrix(defaultParams)

\* The five default values, written as the data model gives them.
StatedDefaults ==
    [height |-> Whole(15), phaseSeparation |-> Whole(11),
     conductorDiameter |-> Div(Whole(318), Whole(100)),
     bundleSpacing |-> Div(Whole(4572), Whole(100)),
     numberOfBundles |-> Whole(2)]

\* The step just taken was handleReset / a handleCalculate right after a
\* handleReset.
ResetStep == lastEvent' = "handleReset"

CalculateAfterReset ==
    lastEvent = "handleReset" /\ lastEvent' = "handleCalculate"

(* C21. From any reachable state of the page, handleReset leaves params
   equal to defaultParams (15, 11, 3.18, 45.72, 2) and calculated false,
   so the results panel is hidden; a handleCalculate that follows then
   shows the result for the default parameters.                            *)
C21_ResetThenCalculate ==
    [][ /\ ResetStep =>
              /\ uiParams' = StatedDefaults
              /\ calculated' = FALSE
              /\ results' = NoResult
        /\ CalculateAfterReset =>
              /\ uiParams' = StatedDefaults
              /\ calculated' = TRUE
              /\ results' = calculateInductanceMatrix(StatedDefaults)
              /\ results'.returned ]_vars

\* Fields were edited (the last edit left a word in a field), the page was
\* reset and Calculate was pressed: the default result is shown.
C21_Witness ==
    /\ lastEvent = "handleCalculate"
    /\ lastText = WordText
    /\ uiParams = defaultParams
    /\ results = calculateInductanceMatrix(defaultParams)
    /\ ~ShowsPlaceholder

\* The number a text stands for once the field has coerced it: the typed
\* number, or 0 for a text that is not a finite number.
Coerced(text) == IF text.kind = "number" THEN text.v ELSE 0

\* x is max(1, round(n / SC)): a whole number, 1 when n / SC is below one
\* half, else the whole number nearest to n / SC, the upper one of two.
IsMaxOneRound(x, n) ==
    /\ IsNum(x)
    /\ x.v % SC = 0
    /\ x.v >= SC
    /\ IF 2 * n < SC THEN x.v = SC
       ELSE 2 * x.v - SC <= 2 * n /\ 2 * n < 2 * x.v + SC

\* An integer that is 1 or more.
IntegerAtLeastOne(x) == IsNum(x) /\ x.v % SC = 0 /\ x.v >= SC

\* The step just taken was an edit that changed the number of
\* sub-conductors.
BundlesEdited ==
    /\ lastEvent' = "updateParam"
    /\ uiParams'.numberOfBundles # uiParams.numberOfBundles

(* C22. In every reachable state of the page, params.numberOfBundles is an
   integer that is 1 or more: starting from the default 2, any edit of
   the sub-conductor field (a fractional, zero, negative or malformed
   entry) stores max(1, round(v)).                                         *)
C22_BundlesIntegerAtLeastOne ==
    /\ [](IntegerAtLeastOne(uiParams.numberOfBundles))
    /\ [][BundlesEdited =>
            IsMaxOneRound(uiParams'.numberOfBundles, Coerced(lastText'))]_vars

\* 2.5 was typed into the sub-conductor field last and 3 is stored, with
\* the other four fields as they were by default.
C22_Witness ==
    /\ lastEvent = "updateParam"
    /\ lastText = NumberText(5 * (SC \div 2))
    /\ uiParams = [defaultParams EXCEPT !.numberOfBundles = Whole(3)]

\* The parameters whose value the step just taken changed.
Changed == {f \in Fields : uiParams'[f] # uiParams[f]}

\* The bundle spacing field is hidden: numberOfBundles > 1 is false.
SpacingHidden == ~Less(Whole(1), uiParams.numberOfBundles)

(* C23. The actions of the page change only what they name:
   updateParam(key, v) changes only params[key] and leaves the other four
   parameters unchanged (so bundleSpacing is retained while its field is
   hidden at numberOfBundles = 1), and handleCalculate leaves all of
   params unchanged.                                                       *)
C23_FrameOfPageActions ==
    [][ /\ lastEvent' = "updateParam" => Cardinality(Changed) <= 1
        /\ lastEvent' = "updateParam" /\ SpacingHidden =>
              "bundleSpacing" \notin Changed
        /\ lastEvent' = "handleCalculate" => Changed = {} ]_vars

\* The bundle spacing was set to 2.5, the number of sub-conductors was then
\* set to 1 and another field was edited: the hidden spacing is still 2.5.
C23_Witness ==
    /\ lastEvent = "updateParam"
    /\ uiParams.numberOfBundles = Whole(1)
    /\ uiParams.bundleSpacing = Num(5 * (SC \div 2))
    /\ uiParams.height = Whole(-5)
    /\ lastText = NumberText(-5 * SC)

--------------------------------------------------------------------------
\* A call whose height and phaseSeparation are both above 0 has returned.
AboveGroundCall ==
    /\ Returned
    /\ Positive(params.height)
    /\ Positive(params.phaseSeparation)

(* C24. For every input with height > 0 and phaseSeparation > 0 the mutual
   coefficients are positive and ordered, 0 < P_13 < P_12 (the outer one
   below the adjacent one), so mutualInductanceAvg lies strictly between
   the outer entry inductanceUntransposed[0][2] and the adjacent entry
   inductanceUntransposed[0][1].                                           *)
C24_MutualOrdering ==
    AboveGroundCall =>
        /\ Less(Whole(0), result.maxwellMatrix[0][2])
        /\ Less(result.maxwellMatrix[0][2], result.maxwellMatrix[0][1])
        /\ Less(result.inductanceUntransposed[0][2],
                result.mutualInductanceAvg)
        /\ Less(result.mutualInductanceAvg,
                result.inductanceUntransposed[0][1])

====
